---- MODULE Spec2Model ----
(***************************************************************************)
(* Admission control of the chat demo server: the sliding-window rate      *)
(* limiter (src/src/rateLimiter.ts) over a Redis sorted set, and the       *)
(* worker pool, request queue and request handlers of src/src/server.ts.   *)
(* Times are milliseconds, as Date.now() returns them.                     *)
(***************************************************************************)
EXTENDS Integers, Sequences, FiniteSets, TLC

VARIABLES
    now,                  \* the wall clock read by Date.now() and by Redis
    store,                \* Redis: key -> sorted set and expiry
    solo,                 \* userId -> its key as its own invocations alone leave it
    calls,                \* checkRateLimit invocations: locals and position
    ncalls,               \* number of checkRateLimit invocations started
    allowedLog,           \* the invocations that returned allowed = true
    tierLog,              \* userId -> the isAuthenticated values it was given
    reqs,                 \* HTTP requests of server.ts: promises, timer, responses
    nreq,                 \* number of HTTP requests received
    requestQueue,         \* server.ts requestQueue (ids of the queued requests)
    activeWorkers,        \* server.ts activeWorkers
    totalProcessed,       \* server.ts totalProcessed
    totalProcessingTime,  \* server.ts totalProcessingTime
    crashed,              \* the server process has exited on an unhandled rejection
    isProcessingQueue,    \* server.ts, sequential variant: a processQueue loop runs
    bucket,               \* token-bucket server: Redis key rate:<userId> -> data
    chats,                \* token-bucket server: POST /chat requests
    retryLog              \* userId -> the times its 429 answers named for a retry

vars == <<now, store, solo, calls, ncalls, allowedLog, tierLog, reqs, nreq, requestQueue, activeWorkers,
          totalProcessed, totalProcessingTime, crashed, isProcessingQueue,
          bucket, chats, retryLog>>

limiterVars == <<store, solo, calls, ncalls, allowedLog, tierLog>>
serverVars == <<reqs, nreq, requestQueue, activeWorkers, totalProcessed,
                totalProcessingTime, crashed, isProcessingQueue>>
bucketVars == <<bucket, chats, retryLog>>

----------------------------------------------------------------------------
(* Configuration: config.rateLimit, config.request, config.workerPool.      *)

guestMaxRequests == 2
authenticatedMaxRequests == 8
windowMs == 60000
timeoutMs == 5000

\* config.workerPool.concurrency (4 in the source) and maxQueueSize (200 in
\* the source) are configuration options; the model instantiates them small
\* enough for a full pool and a full queue to be reachable.
concurrency == 1
maxQueueSize == 2

\* simulateProcessing: delay = 2000 + Math.random() * 1000
minDelayMs == 2000

\* Bounds of the model.
MaxCalls == 3          \* checkRateLimit invocations in flight at once
MaxTotalCalls == 3     \* checkRateLimit invocations
MaxSmallSteps == 2     \* clock advances of 1 ms per window
MaxBigSteps == 1       \* clock advances of windowMs - 1
MaxReq == 4            \* HTTP requests
MaxServerTicks == 2    \* clock advances of tickMs in the server model
MaxLiveReq == 3        \* HTTP requests in the server model with fairness
MaxChats == 2          \* POST /chat requests held at once (token bucket)
MaxBucketTicks == 2    \* clock advances of bucketTickMs in the token-bucket model
MaxBucketMs == 1       \* clock advances of 1 ms, at the start
MaxSlowSteps == 2      \* clock advances of stallMs in the limiter model with slow calls

tickMs == timeoutMs \div 2

Users == {"u1"}
\* the identities of the model in which two identities call the limiter
Identities == {"u1", "u2"}

\* a key that does not depend on the identity
KeyShared(userId) == "rate_limit:"

\* const key = `rate_limit:${userId}`
Key(userId) == "rate_limit:" \o userId

Max(a, b) == IF a >= b THEN a ELSE b
Min(a, b) == IF a <= b THEN a ELSE b
\* Math.ceil(a / b) for b > 0
CeilDiv(a, b) == -((-a) \div b)

----------------------------------------------------------------------------
(* `${now}` and parseInt(s, 10): decimal digits, most significant first.    *)

RECURSIVE FormatNum(_)
FormatNum(n) ==
    IF n < 10 THEN <<n>> ELSE Append(FormatNum(n \div 10), n % 10)

RECURSIVE ParseInt(_)
ParseInt(s) ==
    IF Len(s) = 0 THEN 0
    ELSE 10 * ParseInt(SubSeq(s, 1, Len(s) - 1)) + s[Len(s)]

----------------------------------------------------------------------------
(* Redis sorted sets. A key holds a set of members [value, score], unique   *)
(* by value, and an expiry time (-1: none). An expired key reads as absent. *)

NoKey == [z |-> {}, exp |-> -1]

Live(k, t) == IF k.exp # -1 /\ t >= k.exp THEN NoKey ELSE k

\* a key whose sorted set is empty does not exist
Normal(k) == IF k.z = {} THEN NoKey ELSE k

ZRemRangeByScore(k, lo, hi) ==
    Normal([k EXCEPT !.z = {m \in k.z : ~(lo <= m.score /\ m.score <= hi)}])

ZCard(k) == Cardinality(k.z)

ZAdd(k, score, value) ==
    [k EXCEPT !.z = {m \in k.z : m.value # value}
                    \cup {[value |-> value, score |-> score]}]

\* an expiry that takes the seconds for milliseconds
ExpireMs(k, seconds, t) ==
    IF k.z = {} THEN k ELSE [k EXCEPT !.exp = t + seconds]

\* EXPIRE key seconds, executed at server time t; no effect on a missing key
Expire(k, seconds, t) ==
    IF k.z = {} THEN k ELSE [k EXCEPT !.exp = t + seconds * 1000]

\* ZRANGE with REV: the value of the member of greatest score
ZRangeLast(k) ==
    IF k.z = {} THEN <<>>
    ELSE LET m == CHOOSE x \in k.z : \A y \in k.z : x.score >= y.score
         IN <<m.value>>

\* ZRANGE key 0 0: the value of the member of least score, if any
ZRangeFirst(k) ==
    IF k.z = {} THEN <<>>
    ELSE LET m == CHOOSE x \in k.z : \A y \in k.z : x.score <= y.score
         IN <<m.value>>

----------------------------------------------------------------------------
(* checkRateLimit, one Redis command (and the code up to the next await)    *)
(* per step. c is the invocation's locals, k the key's state, t the time    *)
(* the command executes, fail whether the command throws.                   *)

\* a tier that does not follow the flag of the invocation
LimitConfigGuest(isAuthenticated) ==
    [maxRequests |-> guestMaxRequests, windowMs |-> windowMs]

LimitConfig(isAuthenticated) ==
    IF isAuthenticated
    THEN [maxRequests |-> authenticatedMaxRequests, windowMs |-> windowMs]
    ELSE [maxRequests |-> guestMaxRequests, windowMs |-> windowMs]

NewCall(userId, isAuthenticated, t) ==
    [pc |-> "zRemRangeByScore", userId |-> userId,
     isAuthenticated |-> isAuthenticated, now |-> t,
     currentCount |-> 0, allowed |-> FALSE, remainingRequests |-> 0,
     resetTime |-> 0, err |-> FALSE]

IdleCall ==
    [pc |-> "idle", userId |-> "", isAuthenticated |-> FALSE, now |-> 0,
     currentCount |-> 0, allowed |-> FALSE, remainingRequests |-> 0,
     resetTime |-> 0, err |-> FALSE]

\* a catch block that fails closed
CatchResultFailClosed(c) ==
    [c EXCEPT !.pc = "done", !.allowed = FALSE,
              !.remainingRequests = 0,
              !.resetTime = c.now + LimitConfig(c.isAuthenticated).windowMs,
              !.err = TRUE]

\* the catch block: fail open
CatchResult(c) ==
    [c EXCEPT !.pc = "done", !.allowed = TRUE,
              !.remainingRequests = LimitConfig(c.isAuthenticated).maxRequests,
              !.resetTime = c.now + LimitConfig(c.isAuthenticated).windowMs,
              !.err = TRUE]

\* lines 56-62: remainingRequests, the default resetTime, and whether the
\* oldest entry is looked up
AfterGate(c) ==
    LET cfg == LimitConfig(c.isAuthenticated)
        d == [c EXCEPT
                !.remainingRequests =
                    Max(0, cfg.maxRequests - c.currentCount
                           - (IF c.allowed THEN 1 ELSE 0)),
                !.resetTime = c.now + cfg.windowMs]
    IN IF c.currentCount > 0 THEN [d EXCEPT !.pc = "zRange"]
       ELSE [d EXCEPT !.pc = "done"]

\* a call that records its timestamp whether allowed or not
AfterCountRecordsAll(c, cnt) ==
    LET cfg == LimitConfig(c.isAuthenticated)
        ok == cnt < cfg.maxRequests
    IN [c EXCEPT !.currentCount = cnt, !.allowed = ok, !.pc = "zAdd"]

\* lines 40-46: the reply to zCard decides
AfterCount(c, cnt) ==
    LET cfg == LimitConfig(c.isAuthenticated)
        ok == cnt < cfg.maxRequests
        d == [c EXCEPT !.currentCount = cnt, !.allowed = ok]
    IN IF ok THEN [d EXCEPT !.pc = "zAdd"] ELSE AfterGate(d)

StepCall(c, k0, t, fail) ==
    LET cfg == LimitConfig(c.isAuthenticated)
        k == Live(k0, t)
    IN
    IF fail THEN [call |-> CatchResult(c), key |-> k]
    ELSE CASE c.pc = "zRemRangeByScore" ->
                [call |-> [c EXCEPT !.pc = "zCard"],
                 key |-> ZRemRangeByScore(k, 0, c.now - cfg.windowMs)]
           [] c.pc = "zCard" ->
                [call |-> AfterCount(c, ZCard(k)), key |-> k]
           [] c.pc = "zAdd" ->
                [call |-> [c EXCEPT !.pc = "expire"],
                 key |-> ZAdd(k, c.now, FormatNum(c.now))]
           [] c.pc = "expire" ->
                [call |-> AfterGate(c),
                 key |-> Expire(k, CeilDiv(cfg.windowMs, 1000) + 10, t)]
           [] c.pc = "zRange" ->
                LET oldestRequests == ZRangeFirst(k)
                IN [call |-> IF Len(oldestRequests) > 0
                             THEN [c EXCEPT !.pc = "done",
                                     !.resetTime =
                                        ParseInt(oldestRequests[1]) + cfg.windowMs]
                             ELSE [c EXCEPT !.pc = "done"],
                    key |-> k]
           [] OTHER -> [call |-> c, key |-> k]

\* a whole invocation with no other command in between, all at time t
RECURSIVE RunCall(_, _, _)
RunCall(c, k, t) ==
    IF c.pc = "done" THEN [call |-> c, key |-> k]
    ELSE LET s == StepCall(c, k, t, FALSE)
         IN RunCall(s.call, s.key, t)

\* the RateLimitResult a finished invocation returns
ResultOf(c) ==
    [allowed |-> c.allowed, remainingRequests |-> c.remainingRequests,
     resetTime |-> c.resetTime]

NoResult == [allowed |-> FALSE, remainingRequests |-> 0, resetTime |-> 0]

----------------------------------------------------------------------------
(* State of an HTTP request of server.ts: its QueuedRequest / closure       *)
(* (timestamp, start), its promise (requestPromise or p), its timeout       *)
(* timer, whether Promise.race has settled, and the responses sent.         *)
(* late records that the work finished timeoutMs or more after timestamp.   *)

NoResp ==
    [status |-> 0, error |-> "", remainingRequests |-> 0, resetTime |-> 0,
     cooldownSeconds |-> 0, queueLength |-> 0]

NoReq ==
    [kind |-> "none", userId |-> "", isAuthenticated |-> FALSE,
     timestamp |-> 0, start |-> 0, work |-> "none", promise |-> "none",
     timer |-> "none", settled |-> FALSE, late |-> FALSE,
     rateLimitResult |-> NoResult, responses |-> <<>>]

\* ---------------------------------------------------------------------
\* JavaScript numbers.  tokens, elapsed, refillRate and refillAmount are
\* Numbers, that is IEEE-754 binary64 values, and every arithmetic
\* operation on them rounds its exact result to the nearest such value,
\* ties to the even significand.  A non-negative Number is modelled as
\* [m, e] with value m * 2^e, where m is a natural number of exactly 53
\* bits (or m = 0, e = 0 for zero).  Naturals of that size are kept as
\* little-endian tuples of 14-bit limbs.
\* ---------------------------------------------------------------------
LimbBits == 14
LimbBase == 2 ^ LimbBits
TopLimb == 9
Limbs == 1 .. TopLimb
MantBits == 53

BigZero == [i \in Limbs |-> 0]
Limb(N, i) == IF i \in Limbs THEN N[i] ELSE 0
BigFromInt(n) ==
    [i \in Limbs |-> IF i = 1 THEN n % LimbBase
                     ELSE IF i = 2 THEN (n \div LimbBase) % LimbBase
                     ELSE IF i = 3 THEN (n \div LimbBase) \div LimbBase
                     ELSE 0]
BigToInt(N) == N[1] + LimbBase * N[2]

BitAt(N, j) == (Limb(N, (j \div LimbBits) + 1) \div (2 ^ (j % LimbBits))) % 2
LimbLen(x) == IF x = 0 THEN 0
              ELSE CHOOSE k \in 1 .. LimbBits : 2 ^ (k - 1) <= x /\ x < 2 ^ k
BitLen(N) ==
    IF \A i \in Limbs : N[i] = 0 THEN 0
    ELSE LET t == CHOOSE i \in Limbs :
                      N[i] # 0 /\ \A j \in Limbs : j > i => N[j] = 0
         IN  (t - 1) * LimbBits + LimbLen(N[t])

Shl(N, s) ==
    LET o == s \div LimbBits
        b == s % LimbBits
    IN  [i \in Limbs |->
            ((Limb(N, i - o) * (2 ^ b)) % LimbBase)
            + (Limb(N, i - o - 1) \div (2 ^ (LimbBits - b)))]
Shr(N, s) ==
    LET o == s \div LimbBits
        b == s % LimbBits
    IN  [i \in Limbs |->
            (Limb(N, i + o) \div (2 ^ b))
            + (Limb(N, i + o + 1) % (2 ^ b)) * (2 ^ (LimbBits - b))]
LowZero(N, s) ==
    LET o == s \div LimbBits
        b == s % LimbBits
    IN  /\ \A i \in Limbs : i <= o => N[i] = 0
        /\ Limb(N, o + 1) % (2 ^ b) = 0

RECURSIVE Carry(_, _)
Carry(C, i) ==
    IF i \notin Limbs THEN C
    ELSE LET low == [C EXCEPT ![i] = C[i] % LimbBase]
         IN  Carry(IF i + 1 \in Limbs
                   THEN [low EXCEPT ![i + 1] = C[i + 1] + (C[i] \div LimbBase)]
                   ELSE low,
                   i + 1)
BigAdd(X, Y) == Carry([i \in Limbs |-> X[i] + Y[i]], 1)
RECURSIVE Borrow(_, _)
Borrow(C, i) ==
    IF i \notin Limbs THEN C
    ELSE IF C[i] >= 0 THEN Borrow(C, i + 1)
    ELSE LET low == [C EXCEPT ![i] = C[i] + LimbBase]
         IN  Borrow(IF i + 1 \in Limbs
                    THEN [low EXCEPT ![i + 1] = C[i + 1] - 1]
                    ELSE low,
                    i + 1)
BigSub(X, Y) == Borrow([i \in Limbs |-> X[i] - Y[i]], 1)
BigMul(X, Y) ==
    Carry([k \in Limbs |->
              Limb(X, 1) * Limb(Y, k) + Limb(X, 2) * Limb(Y, k - 1)
              + Limb(X, 3) * Limb(Y, k - 2) + Limb(X, 4) * Limb(Y, k - 3)],
          1)
BigCmp(X, Y) ==
    IF X = Y THEN 0
    ELSE LET t == CHOOSE i \in Limbs :
                      X[i] # Y[i] /\ \A j \in Limbs : j > i => X[j] = Y[j]
         IN  IF X[t] < Y[t] THEN -1 ELSE 1
RECURSIVE DivSmall(_, _, _, _)
DivSmall(N, d, i, rem) ==
    IF i \notin Limbs THEN [q |-> N, r |-> rem]
    ELSE LET cur == rem * LimbBase + N[i]
         IN  DivSmall([N EXCEPT ![i] = cur \div d], d, i - 1, cur % d)

FZero == [m |-> BigZero, e |-> 0]
RoundNearestEven(N, e, sticky) ==
    LET L == BitLen(N)
    IN  IF L = 0 THEN FZero
        ELSE IF L <= MantBits
        THEN [m |-> Shl(N, MantBits - L), e |-> e - (MantBits - L)]
        ELSE LET s    == L - MantBits
                 q    == Shr(N, s)
                 half == BitAt(N, s - 1) = 1
                 rest == sticky \/ ~LowZero(N, s - 1)
                 up   == half /\ (rest \/ BitAt(N, s) = 1)
                 m    == IF up THEN BigAdd(q, BigFromInt(1)) ELSE q
             IN  IF BitLen(m) > MantBits
                 THEN [m |-> Shr(m, 1), e |-> e + s + 1]
                 ELSE [m |-> m, e |-> e + s]
FromInt(n) == RoundNearestEven(BigFromInt(n), 0, FALSE)
FDivInt(n, d) ==
    LET sh == 5 * LimbBits
        qr == DivSmall(Shl(BigFromInt(n), sh), d, TopLimb, 0)
    IN  RoundNearestEven(qr.q, -sh, qr.r # 0)
FCmp(a, b) ==
    IF a.m = BigZero \/ b.m = BigZero
    THEN (IF a.m = b.m THEN 0 ELSE IF a.m = BigZero THEN -1 ELSE 1)
    ELSE IF a.e # b.e THEN (IF a.e < b.e THEN -1 ELSE 1)
    ELSE BigCmp(a.m, b.m)
FGe(a, b) == FCmp(a, b) >= 0
FMin(a, b) == IF FCmp(a, b) <= 0 THEN a ELSE b
FMul(a, b) == RoundNearestEven(BigMul(a.m, b.m), a.e + b.e, FALSE)
FarApart == 4 * LimbBits
FAdd(a, b) ==
    LET hi == IF a.e >= b.e THEN a ELSE b
        lo == IF a.e >= b.e THEN b ELSE a
    IN  IF lo.m = BigZero THEN hi
        ELSE IF hi.m = BigZero THEN lo
        ELSE IF hi.e - lo.e > FarApart THEN hi
        ELSE RoundNearestEven(BigAdd(Shl(hi.m, hi.e - lo.e), lo.m),
                              lo.e, FALSE)
FSub(a, b) ==
    IF b.m = BigZero THEN a
    ELSE IF a.e - b.e > FarApart THEN a
    ELSE RoundNearestEven(BigSub(Shl(a.m, a.e - b.e), b.m), b.e, FALSE)
FFloor(a) ==
    IF a.e >= 0 THEN BigToInt(Shl(a.m, a.e))
    ELSE IF -a.e >= MantBits THEN 0
    ELSE BigToInt(Shr(a.m, -a.e))
\* fl(a / b) <= n for a natural n >= 1: rounding is monotone and n is a
\* Number with an even significand, so this is a / b <= n + (half the
\* distance from n to the next Number above it).
QuotientAtMost(a, b, n) ==
    LET L == LimbLen(n)
        K == BigAdd(Shl(BigFromInt(n), MantBits + 1 - L), BigFromInt(1))
        P == BigMul(b.m, K)
        d == a.e - (b.e + L - (MantBits + 1))
    IN  IF d >= 0 THEN BigCmp(Shl(a.m, d), P) <= 0
        ELSE BigCmp(a.m, Shl(P, -d)) <= 0
RECURSIVE CeilUpper(_, _, _)
CeilUpper(a, b, n) ==
    IF QuotientAtMost(a, b, n) THEN n ELSE CeilUpper(a, b, 2 * n)
RECURSIVE CeilBetween(_, _, _, _)
CeilBetween(a, b, lo, hi) ==
    IF hi - lo <= 1 THEN hi
    ELSE LET mid == (lo + hi) \div 2
         IN  IF QuotientAtMost(a, b, mid) THEN CeilBetween(a, b, lo, mid)
             ELSE CeilBetween(a, b, mid, hi)
FCeilDiv(a, b) ==
    IF a.m = BigZero THEN 0
    ELSE LET hi == CeilUpper(a, b, 1) IN CeilBetween(a, b, hi \div 2, hi)
One == FromInt(1)

(* State of the token-bucket server (src/unnamed/part_002): the value     *)
(* stored under rate:<userId> and the locals of a POST /chat request.       *)

\* the users of the token-bucket server and the limit of their tier
USERS == {1, 2}
TIERS == [u \in USERS |-> IF u = 1 THEN 2 ELSE 3]

NoData == [present |-> FALSE, tokens |-> FZero, lastRefill |-> 0]

IdleChat ==
    [pc |-> "idle", userId |-> 0, now |-> 0, tokens |-> FZero,
     lastRefill |-> 0, refilled |-> FZero, prev |-> FZero, elapsed |-> 0,
     hadData |-> FALSE, err |-> FALSE,
     status |-> 0, remaining |-> 0, retryAfter |-> 0]

Init ==
    /\ now = 0
    /\ store = [k \in {Key(u) : u \in Identities} |-> NoKey]
    /\ solo = [u \in Identities |-> NoKey]
    /\ calls = [i \in 1..MaxCalls |-> IdleCall]
    /\ ncalls = 0
    /\ allowedLog = <<>>
    /\ tierLog = [u \in Identities |-> {}]
    /\ reqs = [r \in 1..MaxReq |-> NoReq]
    /\ nreq = 0
    /\ requestQueue = <<>>
    /\ activeWorkers = 0
    /\ totalProcessed = 0
    /\ totalProcessingTime = 0
    /\ crashed = FALSE
    /\ isProcessingQueue = FALSE
    /\ bucket = [u \in USERS |-> NoData]
    /\ chats = [i \in 1..MaxChats |-> IdleChat]
    /\ retryLog = [u \in USERS |-> {}]

----------------------------------------------------------------------------
(* The limiter on its own: invocations of checkRateLimit by any caller.     *)
(* calls holds the invocations in flight and the last one finished in each  *)
(* slot; allowedLog and tierLog keep what is needed of the earlier ones.    *)

InFlight == {i \in 1..MaxCalls : calls[i].pc \notin {"idle", "done"}}

FreeSlots == (1..MaxCalls) \ InFlight

\* checkRateLimit is entered: lines 24-33
CallStart(userId, isAuthenticated) ==
    /\ ncalls < MaxTotalCalls
    /\ FreeSlots # {}
    /\ LET i == CHOOSE x \in FreeSlots : \A y \in FreeSlots : x <= y
       IN calls' = [calls EXCEPT ![i] = NewCall(userId, isAuthenticated, now)]
    /\ ncalls' = ncalls + 1
    /\ tierLog' = [tierLog EXCEPT ![userId] = @ \cup {isAuthenticated}]
    /\ UNCHANGED <<now, store, solo, allowedLog, serverVars, bucketVars>>

\* the same, entered only when no other invocation is in flight
CallStartSeq(userId, isAuthenticated) ==
    /\ InFlight = {}
    /\ CallStart(userId, isAuthenticated)

\* invocation i goes on to s; a returned allowed = true is logged
Advance(i, s) ==
    /\ calls' = [calls EXCEPT ![i] = s.call]
    /\ store' = [store EXCEPT ![Key(calls[i].userId)] = s.key]
    /\ allowedLog' =
          IF s.call.pc = "done" /\ s.call.allowed
          THEN Append(allowedLog, [userId |-> s.call.userId, now |-> s.call.now])
          ELSE allowedLog

\* the pending Redis command of invocation i executes and its reply is handled
CallStep(i) ==
    /\ i \in InFlight
    /\ Advance(i, StepCall(calls[i], store[Key(calls[i].userId)], now, FALSE))
    /\ solo' = [solo EXCEPT ![calls[i].userId] =
                   StepCall(calls[i], @, now, FALSE).key]
    /\ UNCHANGED <<now, ncalls, tierLog, serverVars, bucketVars>>

\* the pending Redis command of invocation i throws
CallFail(i) ==
    /\ i \in InFlight
    /\ Advance(i, StepCall(calls[i], store[Key(calls[i].userId)], now, TRUE))
    /\ solo' = [solo EXCEPT ![calls[i].userId] =
                   StepCall(calls[i], @, now, TRUE).key]
    /\ UNCHANGED <<now, ncalls, tierLog, serverVars, bucketVars>>

\* time passes: 1 ms, or one window less 1 ms
LimiterTick ==
    /\ \/ /\ now % (windowMs - 1) < MaxSmallSteps
          /\ now' = now + 1
       \/ /\ now \div (windowMs - 1) < MaxBigSteps
          /\ now' = now + (windowMs - 1)
    /\ UNCHANGED <<limiterVars, serverVars, bucketVars>>

NextLimiterSeq ==
    \/ \E u \in Users, a \in BOOLEAN : CallStartSeq(u, a)
    \/ \E i \in 1..MaxCalls : CallStep(i)
    \/ LimiterTick

NextLimiter ==
    \/ \E u \in Users, a \in BOOLEAN : CallStart(u, a)
    \/ \E i \in 1..MaxCalls : CallStep(i)
    \/ LimiterTick

NextLimiterFail ==
    \/ \E u \in Users, a \in BOOLEAN : CallStartSeq(u, a)
    \/ \E i \in 1..MaxCalls : CallStep(i)
    \/ \E i \in 1..MaxCalls : CallFail(i)
    \/ LimiterTick

\* two identities; the invocations of one identity run one after the other
\* and interleave with those of the other
CallStartIdent(userId, isAuthenticated) ==
    /\ \A i \in InFlight : calls[i].userId # userId
    /\ CallStart(userId, isAuthenticated)

\* time passes: one window
IdentTick ==
    /\ now \div windowMs < MaxBigSteps
    /\ now' = now + windowMs
    /\ UNCHANGED <<limiterVars, serverVars, bucketVars>>

NextLimiterIdent ==
    \/ \E u \in Identities, a \in BOOLEAN : CallStartIdent(u, a)
    \/ \E i \in 1..MaxCalls : CallStep(i)
    \/ IdentTick

SpecLimiterIdent == Init /\ [][NextLimiterIdent]_vars

\* sequential invocations, healthy store
SpecLimiterSeq == Init /\ [][NextLimiterSeq]_vars
\* concurrent invocations, healthy store
SpecLimiter == Init /\ [][NextLimiter]_vars
\* sequential invocations, any command may throw
SpecLimiterFail == Init /\ [][NextLimiterFail]_vars

\* line 53: the time to live that expire gives the key, in ms
ttlMs == (CeilDiv(windowMs, 1000) + 10) * 1000

\* time passes: half the time to live. A reply of the store can take that
\* long, so a key can expire between two commands of one invocation.
stallMs == ttlMs \div 2

SlowTick ==
    /\ now \div stallMs < MaxSlowSteps
    /\ now' = now + stallMs
    /\ UNCHANGED <<limiterVars, serverVars, bucketVars>>

NextLimiterSlow ==
    \/ \E u \in Users, a \in BOOLEAN : CallStartSeq(u, a)
    \/ \E i \in 1..MaxCalls : CallStep(i)
    \/ SlowTick

\* sequential invocations, healthy store, long waits
SpecLimiterSlow == Init /\ [][NextLimiterSlow]_vars

----------------------------------------------------------------------------
(* server.ts: the worker pool, the queue and the two chat handlers.         *)

\* the pool's state as one value, for the operators below
Pool ==
    [requestQueue |-> requestQueue, activeWorkers |-> activeWorkers,
     totalProcessed |-> totalProcessed,
     totalProcessingTime |-> totalProcessingTime, reqs |-> reqs,
     crashed |-> crashed]

\* a request whose work is over and whose timer is not pending holds no
\* closure any more: its times are dropped
Retire(q) ==
    IF q.work \in {"none", "finished"} /\ q.timer # "pending"
    THEN [q EXCEPT !.start = 0, !.timestamp = 0, !.rateLimitResult = NoResult]
    ELSE q

SetPool(s) ==
    /\ requestQueue' = s.requestQueue
    /\ activeWorkers' = s.activeWorkers
    /\ totalProcessed' = s.totalProcessed
    /\ totalProcessingTime' = s.totalProcessingTime
    /\ reqs' = [r \in 1..MaxReq |-> Retire(s.reqs[r])]
    /\ crashed' = s.crashed

\* processNext with the worker test off by one
RECURSIVE ProcessNextOffByOne(_, _)
ProcessNextOffByOne(s, t) ==
    IF s.activeWorkers <= concurrency /\ Len(s.requestQueue) > 0
    THEN LET r == Head(s.requestQueue)
         IN ProcessNextOffByOne(
                [s EXCEPT !.requestQueue = Tail(s.requestQueue),
                          !.activeWorkers = s.activeWorkers + 1,
                          !.reqs[r].work = "running",
                          !.reqs[r].start = t],
                t)
    ELSE s

\* processNext with the last queued request taken first
RECURSIVE ProcessNextLifo(_, _)
ProcessNextLifo(s, t) ==
    IF s.activeWorkers < concurrency /\ Len(s.requestQueue) > 0
    THEN LET n == Len(s.requestQueue)
             r == s.requestQueue[n]
         IN ProcessNextLifo(
                [s EXCEPT !.requestQueue = SubSeq(s.requestQueue, 1, n - 1),
                          !.activeWorkers = s.activeWorkers + 1,
                          !.reqs[r].work = "running",
                          !.reqs[r].start = t],
                t)
    ELSE s

\* processNext: start queued requests while a worker is free
RECURSIVE ProcessNext(_, _)
ProcessNext(s, t) ==
    IF s.activeWorkers < concurrency /\ Len(s.requestQueue) > 0
    THEN LET r == Head(s.requestQueue)
         IN ProcessNext(
                [s EXCEPT !.requestQueue = Tail(s.requestQueue),
                          !.activeWorkers = s.activeWorkers + 1,
                          !.reqs[r].work = "running",
                          !.reqs[r].start = t],
                t)
    ELSE s

\* a release that happens only when the work succeeded in time
ReleaseWorkerOnSuccess(s, r, t) ==
    IF s.reqs[r].promise = "resolved"
    THEN [s EXCEPT !.totalProcessed = s.totalProcessed + 1,
                   !.totalProcessingTime = s.totalProcessingTime + (t - s.reqs[r].start),
                   !.activeWorkers = s.activeWorkers - 1,
                   !.reqs[r].work = "finished",
                   !.reqs[r].late = (t >= s.reqs[r].timestamp + timeoutMs)]
    ELSE [s EXCEPT !.reqs[r].work = "finished",
                   !.reqs[r].late = (t >= s.reqs[r].timestamp + timeoutMs)]

\* a release that counts only the work that finished in time
ReleaseWorkerInTime(s, r, t) ==
    [s EXCEPT !.totalProcessed =
                  IF t - s.reqs[r].timestamp >= timeoutMs THEN @ ELSE @ + 1,
              !.totalProcessingTime = s.totalProcessingTime + (t - s.reqs[r].start),
              !.activeWorkers = s.activeWorkers - 1,
              !.reqs[r].work = "finished",
              !.reqs[r].late = (t >= s.reqs[r].timestamp + timeoutMs)]

\* the finally blocks of processNext's worker and of processImmediate
ReleaseWorker(s, r, t) ==
    [s EXCEPT !.totalProcessed = s.totalProcessed + 1,
              !.totalProcessingTime = s.totalProcessingTime + (t - s.reqs[r].start),
              !.activeWorkers = s.activeWorkers - 1,
              !.reqs[r].work = "finished",
              !.reqs[r].late = (t >= s.reqs[r].timestamp + timeoutMs)]

\* a worker that delivers its result whatever the time
WorkOutcomeAlways(q, t) == "resolved"

\* a worker that times out only after more than timeoutMs
WorkOutcomeStrict(q, t) ==
    IF t - q.timestamp > timeoutMs THEN "rejected" ELSE "resolved"

\* what a worker does with its result at time t: "rejected" is
\* reject({ timeout: true }) / throw { timeout: true }, "resolved" the result
WorkOutcome(q, t) ==
    IF t - q.timestamp >= timeoutMs THEN "rejected" ELSE "resolved"

\* a race in which every settlement answers
RaceSettleEvery(q, outcome) ==
    [q EXCEPT !.settled = TRUE,
              !.responses = Append(@,
                   IF outcome = "resolved"
                   THEN [NoResp EXCEPT !.status = 200]
                   ELSE [NoResp EXCEPT !.status = 408,
                                       !.error = "Request timeout"])]

\* the unthrottled handler after Promise.race: the first settlement answers,
\* a later one finds the race settled and does nothing
RaceSettle(q, outcome) ==
    IF q.settled THEN q
    ELSE [q EXCEPT !.settled = TRUE,
                   !.responses = Append(@,
                        IF outcome = "resolved"
                        THEN [NoResp EXCEPT !.status = 200]
                        ELSE [NoResp EXCEPT !.status = 408,
                                            !.error = "Request timeout"])]

\* a queue-full test that lets one more request in
QueueFullOffByOne(s) == Len(s.requestQueue) > maxQueueSize

\* the queue-full test of POST /chat/without-rate-limit
QueueFull(s) == Len(s.requestQueue) >= maxQueueSize

\* POST /chat/without-rate-limit up to its await
UnthrottledArrive(userId) ==
    /\ ~crashed
    /\ nreq < MaxReq
    /\ nreq' = nreq + 1
    /\ LET r == nreq + 1
       IN IF QueueFull(Pool)
          THEN SetPool([Pool EXCEPT !.reqs[r] =
                          [NoReq EXCEPT !.kind = "unthrottled",
                                        !.userId = userId,
                                        !.responses =
                                           <<[NoResp EXCEPT !.status = 503,
                                                !.error = "Server queue is full"]>>]])
          ELSE LET pushed ==
                     [Pool EXCEPT
                        !.requestQueue = Append(requestQueue, r),
                        !.reqs[r] = [NoReq EXCEPT !.kind = "unthrottled",
                                                  !.userId = userId,
                                                  !.timestamp = now,
                                                  !.work = "queued",
                                                  !.promise = "pending",
                                                  !.timer = "pending"]]
               IN SetPool(ProcessNext(pushed, now))
    /\ UNCHANGED <<now, isProcessingQueue, limiterVars, bucketVars>>

\* a worker started by processNext finishes its request
QueuedWorkDone(r) ==
    /\ ~crashed
    /\ reqs[r].kind = "unthrottled"
    /\ reqs[r].work = "running"
    /\ now - reqs[r].start >= minDelayMs
    /\ LET outcome == WorkOutcome(reqs[r], now)
           settled == [Pool EXCEPT !.reqs[r] =
                          RaceSettle([reqs[r] EXCEPT !.promise = outcome], outcome)]
       IN SetPool(ProcessNext(ReleaseWorker(settled, r, now), now))
    /\ UNCHANGED <<now, isProcessingQueue, nreq, limiterVars, bucketVars>>

\* a timer that takes its request out of the queue when it fires
TimerFireCancels(r) ==
    /\ ~crashed
    /\ reqs[r].timer = "pending"
    /\ now >= reqs[r].timestamp + timeoutMs
    /\ LET fired == [Pool EXCEPT !.reqs[r] =
                        RaceSettle([reqs[r] EXCEPT !.timer = "fired"], "rejected")]
       IN IF reqs[r].work = "queued"
          THEN SetPool([fired EXCEPT
                          !.requestQueue = SelectSeq(requestQueue, LAMBDA x : x # r),
                          !.reqs[r].work = "none"])
          ELSE SetPool(fired)
    /\ UNCHANGED <<now, isProcessingQueue, nreq, limiterVars, bucketVars>>

\* the timeout timer of an unthrottled request fires: timeoutMs or more
\* after it was set
TimerFire(r) ==
    /\ ~crashed
    /\ reqs[r].timer = "pending"
    /\ now >= reqs[r].timestamp + timeoutMs
    /\ SetPool([Pool EXCEPT !.reqs[r] =
                  RaceSettle([reqs[r] EXCEPT !.timer = "fired"], "rejected")])
    /\ UNCHANGED <<now, isProcessingQueue, nreq, limiterVars, bucketVars>>

\* processImmediate that claims a worker whatever the count
ProcessImmediateNoCheck(s, r, t) ==
    [s EXCEPT !.activeWorkers = s.activeWorkers + 1,
              !.reqs[r].work = "running",
              !.reqs[r].promise = "pending",
              !.reqs[r].timestamp = t,
              !.reqs[r].start = t]

\* processImmediate that puts the request in the queue when no worker is free
ProcessImmediateQueues(s, r, t) ==
    IF s.activeWorkers >= concurrency
    THEN [s EXCEPT !.requestQueue = Append(s.requestQueue, r),
                   !.reqs[r].work = "queued",
                   !.reqs[r].timestamp = t]
    ELSE [s EXCEPT !.activeWorkers = s.activeWorkers + 1,
                   !.reqs[r].work = "running",
                   !.reqs[r].promise = "pending",
                   !.reqs[r].timestamp = t,
                   !.reqs[r].start = t]

\* processImmediate with the worker test off by one
ProcessImmediateOffByOne(s, r, t) ==
    IF s.activeWorkers > concurrency THEN s
    ELSE [s EXCEPT !.activeWorkers = s.activeWorkers + 1,
                   !.reqs[r].work = "running",
                   !.reqs[r].promise = "pending",
                   !.reqs[r].timestamp = t,
                   !.reqs[r].start = t]

\* processImmediate up to its await: claim a worker, or null
ProcessImmediate(s, r, t) ==
    IF s.activeWorkers >= concurrency THEN s
    ELSE [s EXCEPT !.activeWorkers = s.activeWorkers + 1,
                   !.reqs[r].work = "running",
                   !.reqs[r].promise = "pending",
                   !.reqs[r].timestamp = t,
                   !.reqs[r].start = t]

\* the 429 of a request the limiter rejected
RateLimitedResp(rateLimitResult, t) ==
    [NoResp EXCEPT !.status = 429, !.error = "Rate limit exceeded",
                   !.remainingRequests = 0,
                   !.resetTime = rateLimitResult.resetTime,
                   !.cooldownSeconds =
                       Max(0, CeilDiv(rateLimitResult.resetTime - t, 1000))]

\* POST /chat/with-rate-limit up to `await immediate`; the limiter's commands
\* run back to back
GatedArrive(userId, isAuthenticated) ==
    /\ ~crashed
    /\ nreq < MaxReq
    /\ nreq' = nreq + 1
    /\ LET r == nreq + 1
           run == RunCall(NewCall(userId, isAuthenticated, now),
                          store[Key(userId)], now)
           rateLimitResult == ResultOf(run.call)
           q == [NoReq EXCEPT !.kind = "gated", !.userId = userId,
                              !.isAuthenticated = isAuthenticated,
                              !.timestamp = now,
                              !.rateLimitResult = rateLimitResult]
       IN /\ store' = [store EXCEPT ![Key(userId)] = run.key]
          /\ solo' = [solo EXCEPT ![userId] =
                         RunCall(NewCall(userId, isAuthenticated, now), @, now).key]
          /\ IF ~rateLimitResult.allowed
             THEN SetPool([Pool EXCEPT !.reqs[r] =
                     [q EXCEPT !.responses =
                                 <<RateLimitedResp(rateLimitResult, now)>>]])
             ELSE LET s == ProcessImmediate([Pool EXCEPT !.reqs[r] = q], r, now)
                  IN IF s.reqs[r].work = "running"
                     THEN SetPool(s)
                     ELSE SetPool([s EXCEPT !.reqs[r].responses =
                             <<[NoResp EXCEPT !.status = 429,
                                   !.error = "Server overloaded",
                                   !.queueLength = Len(requestQueue)]>>])
    /\ UNCHANGED <<now, isProcessingQueue, calls, ncalls, allowedLog, tierLog, bucketVars>>

\* a processImmediate whose completion starts nothing
AfterImmediateNoDrain(s, t) == s

\* p.finally(() => processNext()): runs when p has settled either way
AfterImmediate(s, t) == ProcessNext(s, t)

\* what the runtime does with a rejected promise that has no handler:
\* Node.js 15 and later end the process, earlier ones (and
\* --unhandled-rejections=warn) only warn
UnhandledRejectionFatal == BOOLEAN

\* the work started by processImmediate finishes: the async body, its finally,
\* p.finally(() => processNext()), then the handler's answer. When p rejects,
\* the promise that p.finally returns rejects too; it has no handler.
GatedWorkDone(r) ==
    /\ ~crashed
    /\ reqs[r].kind = "gated"
    /\ reqs[r].work = "running"
    /\ now - reqs[r].start >= minDelayMs
    /\ LET outcome == WorkOutcome(reqs[r], now)
           answered ==
              [Pool EXCEPT
                 !.reqs[r].promise = outcome,
                 !.reqs[r].responses = Append(@,
                    IF outcome = "resolved"
                    THEN [NoResp EXCEPT
                            !.status = 200,
                            !.remainingRequests =
                                reqs[r].rateLimitResult.remainingRequests,
                            !.resetTime = reqs[r].rateLimitResult.resetTime]
                    ELSE [NoResp EXCEPT !.status = 408,
                                        !.error = "Request timeout"])]
           drained == AfterImmediate(ReleaseWorker(answered, r, now), now)
       IN IF outcome = "rejected"
          THEN \E fatal \in UnhandledRejectionFatal :
                  SetPool([drained EXCEPT !.crashed = fatal])
          ELSE SetPool(drained)
    /\ UNCHANGED <<now, isProcessingQueue, nreq, limiterVars, bucketVars>>

\* GET /metrics: what the handler answers in pool state s; it assigns
\* nothing. Math.round of the quotient is the nearest integer, halves up.
Metrics(s) ==
    [activeWorkers |-> s.activeWorkers,
     queueLength |-> Len(s.requestQueue),
     avgLatencyMs |-> IF s.totalProcessed > 0
                      THEN (2 * s.totalProcessingTime + s.totalProcessed)
                               \div (2 * s.totalProcessed)
                      ELSE 0,
     totalProcessed |-> s.totalProcessed,
     concurrency |-> concurrency,
     maxQueueSize |-> maxQueueSize]

\* time passes in the server
ServerTick ==
    /\ ~crashed
    /\ now + tickMs <= MaxServerTicks * tickMs
    /\ now' = now + tickMs
    /\ UNCHANGED <<limiterVars, serverVars, bucketVars>>

Next ==
    \/ \E u \in Users : UnthrottledArrive(u)
    \/ \E u \in Users, a \in BOOLEAN : GatedArrive(u, a)
    \/ \E r \in 1..MaxReq : QueuedWorkDone(r)
    \/ \E r \in 1..MaxReq : GatedWorkDone(r)
    \/ \E r \in 1..MaxReq : TimerFire(r)
    \/ ServerTick

Spec == Init /\ [][Next]_vars

----------------------------------------------------------------------------
(* The server with time that goes on until the work is done. A started     *)
(* unit of work completes, and a timer fires, at most lateMs after it is    *)
(* due; the clock does not pass that point before they have.                *)

lateMs == timeoutMs - minDelayMs

Busy ==
    \/ \E r \in 1..MaxReq : reqs[r].work \in {"queued", "running"}
    \/ \E r \in 1..MaxReq : reqs[r].timer = "pending"

Overdue(t) ==
    \/ \E r \in 1..MaxReq :
          reqs[r].work = "running" /\ t > reqs[r].start + minDelayMs + lateMs
    \/ \E r \in 1..MaxReq :
          reqs[r].timer = "pending" /\ t > reqs[r].timestamp + timeoutMs + lateMs

LiveTick ==
    /\ ~crashed
    /\ Busy \/ now + tickMs <= MaxServerTicks * tickMs
    /\ ~Overdue(now + tickMs)
    /\ now' = now + tickMs
    /\ UNCHANGED <<limiterVars, serverVars, bucketVars>>

NextLive ==
    \/ \E u \in Users : nreq < MaxLiveReq /\ UnthrottledArrive(u)
    \/ \E u \in Users, a \in BOOLEAN : nreq < MaxLiveReq /\ GatedArrive(u, a)
    \/ \E r \in 1..MaxReq : QueuedWorkDone(r)
    \/ \E r \in 1..MaxReq : GatedWorkDone(r)
    \/ \E r \in 1..MaxReq : TimerFire(r)
    \/ LiveTick

\* every started unit of work eventually completes, every timer that is due
\* eventually fires, and time passes
SpecLive ==
    /\ Init /\ [][NextLive]_vars
    /\ WF_vars(LiveTick)
    /\ \A r \in 1..MaxReq :
          /\ WF_vars(QueuedWorkDone(r))
          /\ WF_vars(GatedWorkDone(r))
          /\ WF_vars(TimerFire(r))

----------------------------------------------------------------------------
(* server.ts, the sequential variant (lines 313-543): one processQueue     *)
(* loop takes the queued requests one after the other. A loop that waits   *)
(* for its delay holds the request it shifted (work = "running"); the      *)
(* variant has no worker pool, no queue limit and no counters.             *)

\* the state the variant works on, as one value
Queue ==
    [requestQueue |-> requestQueue, isProcessingQueue |-> isProcessingQueue,
     reqs |-> reqs]

SetQueue(s) ==
    /\ requestQueue' = s.requestQueue
    /\ isProcessingQueue' = s.isProcessingQueue
    /\ reqs' = [r \in 1..MaxReq |-> Retire(s.reqs[r])]

\* lines 418-424 and 437: the loop test; the loop shifts the next request
\* and waits for its delay, or ends and clears isProcessingQueue
LoopHead(s, t) ==
    IF Len(s.requestQueue) > 0
    THEN LET r == Head(s.requestQueue)
         IN [s EXCEPT !.requestQueue = Tail(s.requestQueue),
                      !.reqs[r].work = "running",
                      !.reqs[r].start = t]
    ELSE [s EXCEPT !.isProcessingQueue = FALSE]

\* processQueue that does not look at isProcessingQueue
ProcessQueueNoMutex(s, t) ==
    IF Len(s.requestQueue) = 0 THEN s
    ELSE LoopHead([s EXCEPT !.isProcessingQueue = TRUE], t)

\* lines 411-418: processQueue up to its first await
ProcessQueue(s, t) ==
    IF s.isProcessingQueue \/ Len(s.requestQueue) = 0 THEN s
    ELSE LoopHead([s EXCEPT !.isProcessingQueue = TRUE], t)

\* lines 483-511: POST /chat/without-rate-limit up to its await: push the
\* request, call processQueue, set the timeout timer
SequentialArrive(userId) ==
    /\ ~crashed
    /\ nreq < MaxLiveReq
    /\ nreq' = nreq + 1
    /\ LET r == nreq + 1
           pushed ==
              [Queue EXCEPT
                 !.requestQueue = Append(requestQueue, r),
                 !.reqs[r] = [NoReq EXCEPT !.kind = "unthrottled",
                                           !.userId = userId,
                                           !.timestamp = now,
                                           !.work = "queued",
                                           !.promise = "pending",
                                           !.timer = "pending"]]
       IN SetQueue(ProcessQueue(pushed, now))
    /\ UNCHANGED <<now, activeWorkers, totalProcessed, totalProcessingTime,
                   crashed, limiterVars, bucketVars>>

\* lines 426-435: the delay of the loop is over; the request is rejected
\* when timeoutMs have passed since its timestamp, else resolved; the
\* handler answers if the race is not settled (513-526); the loop goes on
SequentialWorkDone(r) ==
    /\ ~crashed
    /\ reqs[r].work = "running"
    /\ now - reqs[r].start >= minDelayMs
    /\ LET outcome == IF now - reqs[r].timestamp >= timeoutMs
                      THEN "rejected" ELSE "resolved"
           settled ==
              [Queue EXCEPT
                 !.reqs[r] = [RaceSettle([reqs[r] EXCEPT !.promise = outcome],
                                         outcome)
                                 EXCEPT !.work = "finished",
                                        !.late = (outcome = "rejected")]]
       IN SetQueue(LoopHead(settled, now))
    /\ UNCHANGED <<now, nreq, activeWorkers, totalProcessed,
                   totalProcessingTime, crashed, limiterVars, bucketVars>>

NextSequential ==
    \/ \E u \in Users : SequentialArrive(u)
    \/ \E r \in 1..MaxReq : SequentialWorkDone(r)
    \/ \E r \in 1..MaxReq : TimerFire(r)
    \/ LiveTick

\* every delay ends, every timer that is due fires, and time passes
SpecSequential ==
    /\ Init /\ [][NextSequential]_vars
    /\ WF_vars(LiveTick)
    /\ \A r \in 1..MaxReq :
          /\ WF_vars(SequentialWorkDone(r))
          /\ WF_vars(TimerFire(r))

----------------------------------------------------------------------------
(* The token-bucket server (src/unnamed/part_002): POST /chat with          *)
(* rateLimitingEnabled = true. tokens is a JavaScript number and is         *)
(* computed with the rounding of every operation the handler applies.       *)
(* JSON.stringify writes a number with the digits that JSON.parse reads     *)
(* back to the same number, so the stored value is the computed one.        *)

\* the clock of the token-bucket model advances by one millisecond, at
\* the start, or to the next multiple of half the 60 s the limit is given
\* for
bucketTickMs == 60000 \div 2

\* the limit spread over 100 s
RefillRateSlow(limit) == FDivInt(limit, 100)

\* line 67: refillRate = limit / 60
RefillRate(limit) == FDivInt(limit, 60)

\* lines 81-82: tokens + ((now - lastRefill) / 1000) * refillRate
Accrued(limit, tokens, lastRefill, t) ==
    FAdd(tokens, FMul(FDivInt(t - lastRefill, 1000), RefillRate(limit)))

\* a refill with no cap
RefillUncapped(limit, tokens, lastRefill, t) ==
    Accrued(limit, tokens, lastRefill, t)

\* lines 81-83: tokens = Math.min(limit, tokens + elapsed * refillRate)
Refill(limit, tokens, lastRefill, t) ==
    FMin(FromInt(limit), Accrued(limit, tokens, lastRefill, t))

\* lines 69-85: the reply to GET and the tokens and lastRefill it gives
AfterGet(c, data) ==
    LET limit == TIERS[c.userId]
        tokens == IF ~data.present THEN FromInt(limit)
                  ELSE Refill(limit, data.tokens, data.lastRefill, c.now)
    IN [c EXCEPT !.pc = "set", !.tokens = tokens, !.refilled = tokens,
                 !.lastRefill = c.now,
                 !.hadData = data.present, !.prev = data.tokens,
                 !.elapsed = IF data.present THEN c.now - data.lastRefill ELSE 0]

\* lines 87-116: what is written and what is answered
AfterSet(c) ==
    LET limit == TIERS[c.userId]
    IN IF FGe(c.tokens, One)
       THEN [c EXCEPT !.pc = "done", !.tokens = FSub(c.tokens, One),
                      !.status = 200,
                      !.remaining = FFloor(FSub(c.tokens, One))]
       ELSE [c EXCEPT !.pc = "done", !.status = 429, !.remaining = 0,
                      !.retryAfter = FCeilDiv(FSub(One, c.tokens),
                                              RefillRate(limit))]

ChatsInFlight == {i \in 1..MaxChats : chats[i].pc \in {"get", "set"}}

\* POST /chat is received: lines 41-67
ChatStart(userId) ==
    /\ \E i \in 1..MaxChats :
          /\ i \notin ChatsInFlight
          /\ \A j \in 1..MaxChats : j \notin ChatsInFlight => i <= j
          /\ chats' = [chats EXCEPT ![i] =
                          [IdleChat EXCEPT !.pc = "get", !.userId = userId,
                                           !.now = now]]
    /\ UNCHANGED <<now, bucket, retryLog, limiterVars, serverVars>>

\* the same, received only when no other request is in flight
ChatStartSeq(userId) ==
    /\ ChatsInFlight = {}
    /\ ChatStart(userId)

\* redisClient.get replies. The handler sends GET in the turn that read
\* Date.now() (lines 66-69) and the commands of the one connection are
\* served in the order sent, so the GET of an earlier request is served
\* first.
ChatGet(i) ==
    /\ chats[i].pc = "get"
    /\ \A j \in 1..MaxChats :
          chats[j].pc = "get" => chats[j].now >= chats[i].now
    /\ chats' = [chats EXCEPT ![i] = AfterGet(@, bucket[chats[i].userId])]
    /\ UNCHANGED <<now, bucket, retryLog, limiterVars, serverVars>>

\* redisClient.set replies and the response is decided. retryLog keeps,
\* for the 429 answers a user was given since its last 200, the time each
\* one named, retryAfter seconds after the answer, until that time is past.
ChatSet(i) ==
    /\ chats[i].pc = "set"
    /\ LET d == AfterSet(chats[i])
       IN /\ chats' = [chats EXCEPT ![i] = d]
          /\ bucket' = [bucket EXCEPT ![d.userId] =
                           [present |-> TRUE, tokens |-> d.tokens,
                            lastRefill |-> d.lastRefill]]
          /\ retryLog' = [retryLog EXCEPT ![d.userId] =
                             IF d.status = 200 THEN {}
                             ELSE {t \in @ : t >= now}
                                    \cup {now + d.retryAfter * 1000}]
    /\ UNCHANGED <<now, limiterVars, serverVars>>

BucketTick ==
    /\ \/ /\ now \div bucketTickMs < MaxBucketTicks
          /\ now' = ((now \div bucketTickMs) + 1) * bucketTickMs
       \/ /\ now < MaxBucketMs
          /\ now' = now + 1
    /\ UNCHANGED <<limiterVars, serverVars, bucketVars>>

NextBucketSeq ==
    \/ \E u \in USERS : ChatStartSeq(u)
    \/ \E i \in 1..MaxChats : ChatGet(i)
    \/ \E i \in 1..MaxChats : ChatSet(i)
    \/ BucketTick

\* requests one after the other
SpecBucketSeq == Init /\ [][NextBucketSeq]_vars

NextBucket ==
    \/ \E u \in USERS : ChatStart(u)
    \/ \E i \in 1..MaxChats : ChatGet(i)
    \/ \E i \in 1..MaxChats : ChatSet(i)

\* requests that overlap: one can be received while another awaits the
\* store; all within one millisecond, so that nothing is refilled
SpecBucket == Init /\ [][NextBucket]_vars

\* lines 117-120: the catch block answers 500
CatchChat(c) == [c EXCEPT !.pc = "done", !.status = 500, !.err = TRUE]

\* redisClient.get rejects (line 69)
ChatGetFail(i) ==
    /\ chats[i].pc = "get"
    /\ chats' = [chats EXCEPT ![i] = CatchChat(@)]
    /\ UNCHANGED <<now, bucket, retryLog, limiterVars, serverVars>>

\* redisClient.set rejects (lines 89, 102): nothing is written
ChatSetFail(i) ==
    /\ chats[i].pc = "set"
    /\ chats' = [chats EXCEPT ![i] = CatchChat(@)]
    /\ UNCHANGED <<now, bucket, retryLog, limiterVars, serverVars>>

NextBucketFail ==
    \/ NextBucketSeq
    \/ \E i \in 1..MaxChats : ChatGetFail(i)
    \/ \E i \in 1..MaxChats : ChatSetFail(i)

\* requests one after the other, with a store that can fail
SpecBucketFail == Init /\ [][NextBucketFail]_vars

----------------------------------------------------------------------------
(* Properties.                                                              *)

Started == {i \in 1..MaxCalls : calls[i].pc # "idle"}

\* every invocation for userId so far was made with isAuthenticated = a
TierFixed(userId, a) == tierLog[userId] \subseteq {a}

\* the invocations for userId that returned allowed = true with a timestamp
\* in (t - windowMs, t]
AllowedIn(userId, t) ==
    {j \in 1..Len(allowedLog) :
        /\ allowedLog[j].userId = userId
        /\ t - windowMs < allowedLog[j].now
        /\ allowedLog[j].now <= t}

\* C1: sliding-window limit under sequential invocations with a fixed tier:
\* for every time t (a window holds most when it ends at the timestamp of an
\* allowed invocation), at most maxRequests invocations with a timestamp in
\* (t - windowMs, t] returned allowed = true.
C1_SlidingWindowLimit ==
    \A u \in Users, a \in BOOLEAN :
        TierFixed(u, a) =>
            \A i \in 1..Len(allowedLog) :
                Cardinality(AllowedIn(u, allowedLog[i].now))
                    <= LimitConfig(a).maxRequests

\* C2: the limit under concurrent invocations whose Redis commands
\* interleave: if evict-count-add of each invocation acted as one atomic
\* operation, the invocations allowed within one window would carry at most
\* maxRequests different timestamps (invocations that read the same
\* millisecond are counted once here, so that only the interleaving can
\* break the bound).
C2_AtomicCheck ==
    \A u \in Users, a \in BOOLEAN :
        TierFixed(u, a) =>
            \A i \in 1..Len(allowedLog) :
                Cardinality({allowedLog[j].now :
                                j \in AllowedIn(u, allowedLog[i].now)})
                    <= LimitConfig(a).maxRequests

\* C3: fail open: an invocation in which a Redis command threw has returned
\* (the error is not propagated) with allowed = true, remainingRequests =
\* maxRequests of its tier and resetTime = now + windowMs.
C3_FailOpen ==
    \A i \in Started :
        calls[i].err =>
            /\ calls[i].pc = "done"
            /\ calls[i].allowed
            /\ calls[i].remainingRequests
                   = LimitConfig(calls[i].isAuthenticated).maxRequests
            /\ calls[i].resetTime
                   = calls[i].now + LimitConfig(calls[i].isAuthenticated).windowMs

\* a command threw in an invocation that had counted a full window
C3_Witness ==
    \E i \in Started :
        /\ calls[i].err
        /\ calls[i].pc = "done"
        /\ calls[i].currentCount
               >= LimitConfig(calls[i].isAuthenticated).maxRequests

Arrived == 1..nreq

\* the status codes of the responses sent for a request
StatusOf(q) == [i \in 1..Len(q.responses) |-> q.responses[i].status]
Status(r) == StatusOf(reqs[r])

\* C4: pool bound: in every reachable state 0 <= activeWorkers <= concurrency.
C4_PoolBound == 0 <= activeWorkers /\ activeWorkers <= concurrency

\* the pool is full, a gated request was turned away as overloaded, a queued
\* request waits, and some work has completed
C4_Witness ==
    /\ activeWorkers = concurrency
    /\ totalProcessed > 0
    /\ Len(requestQueue) > 0
    /\ \E r \in Arrived :
          /\ reqs[r].kind = "gated"
          /\ Len(reqs[r].responses) = 1
          /\ reqs[r].responses[1].error = "Server overloaded"

\* C5: queue bound: requestQueue never holds more than maxQueueSize requests,
\* and an unthrottled request that arrives at a full queue is answered 503
\* in that step, is not queued, has no timer, and leaves the queue,
\* activeWorkers and the counters unchanged.
C5_QueueBound ==
    /\ [](Len(requestQueue) <= maxQueueSize)
    /\ [][(/\ nreq' = nreq + 1
           /\ reqs'[nreq'].kind = "unthrottled"
           /\ Len(requestQueue) >= maxQueueSize)
          => /\ StatusOf(reqs'[nreq']) = <<503>>
             /\ reqs'[nreq'].work = "none"
             /\ reqs'[nreq'].timer = "none"
             /\ requestQueue' = requestQueue
             /\ activeWorkers' = activeWorkers
             /\ totalProcessed' = totalProcessed
             /\ totalProcessingTime' = totalProcessingTime]_vars

\* a request was answered 503 at a full queue
C5_Witness ==
    /\ Len(requestQueue) = maxQueueSize
    /\ \E r \in Arrived : reqs[r].kind = "unthrottled" /\ Status(r) = <<503>>

\* C6: race correctness: an unthrottled request whose work finished
\* timeoutMs or more after it was enqueued was answered 408, once, and never
\* with the result.
C6_LateIsTimeout ==
    \A r \in Arrived :
        (reqs[r].kind = "unthrottled" /\ reqs[r].work = "finished" /\ reqs[r].late)
            => Status(r) = <<408>>

\* work finished late while the timeout timer had not fired yet
C6_Witness ==
    \E r \in Arrived :
        /\ reqs[r].kind = "unthrottled"
        /\ reqs[r].work = "finished"
        /\ reqs[r].late
        /\ reqs[r].timer = "pending"

\* C7: first settler wins: an enqueued unthrottled request has at most one
\* response, and exactly one as soon as its work or its timer has settled;
\* the first settlement decides it (the timer: 408; the worker: 200 if it
\* resolved, 408 if it rejected), and no later step changes it.
C7_FirstSettlerWins ==
    /\ [](\A r \in Arrived :
            (reqs[r].kind = "unthrottled" /\ reqs[r].work # "none") =>
                /\ Len(reqs[r].responses) <= 1
                /\ (reqs[r].promise \in {"resolved", "rejected"}
                      \/ reqs[r].timer = "fired")
                     <=> Len(reqs[r].responses) = 1)
    /\ [][\A r \in 1..MaxReq :
            /\ reqs[r].responses # <<>> => reqs'[r].responses = reqs[r].responses
            /\ (reqs[r].kind = "unthrottled" /\ reqs[r].work # "none"
                  /\ reqs[r].responses = <<>> /\ reqs'[r].responses # <<>>)
                 => StatusOf(reqs'[r]) =
                      IF reqs'[r].timer = "fired" THEN <<408>>
                      ELSE IF reqs'[r].promise = "resolved" THEN <<200>>
                      ELSE <<408>>]_vars

\* both orders have happened: a timer fired after its request was answered
\* 200, and a worker settled after its request's timer had answered 408
C7_Witness ==
    /\ \E r \in Arrived :
          /\ reqs[r].kind = "unthrottled"
          /\ Status(r) = <<200>>
          /\ reqs[r].timer = "fired"
    /\ \E r \in Arrived :
          /\ reqs[r].kind = "unthrottled"
          /\ Status(r) = <<408>>
          /\ reqs[r].timer = "fired"
          /\ reqs[r].promise = "rejected"

Enqueued == {r \in Arrived : reqs[r].kind = "unthrottled" /\ reqs[r].work # "none"}

\* C8: FIFO: requests are numbered in arrival order; the queue holds exactly
\* the requests not yet started, oldest first, and of two enqueued requests
\* the later one has not started while the earlier one still waits.
C8_Fifo ==
    /\ \A i \in 1..Len(requestQueue) :
          /\ reqs[requestQueue[i]].work = "queued"
          /\ \A j \in 1..Len(requestQueue) :
                i < j => requestQueue[i] < requestQueue[j]
    /\ \A r \in Enqueued :
          reqs[r].work = "queued" => \E i \in 1..Len(requestQueue) : requestQueue[i] = r
    /\ \A a \in Enqueued, b \in Enqueued :
          (a < b /\ reqs[b].work \in {"running", "finished"})
              => reqs[a].work \in {"running", "finished"}

\* of two requests that waited together the earlier one runs and the later
\* one still waits
C8_Witness ==
    \E a \in Enqueued, b \in Enqueued :
        /\ a < b
        /\ reqs[a].work = "running"
        /\ reqs[b].work = "queued"
        /\ reqs[b].timestamp < reqs[a].start

\* C9: burst admission: while only unthrottled requests have arrived and no
\* work has completed, the first `concurrency` requests execute (started on
\* arrival), the next maxQueueSize wait in the queue in order, and every
\* further one was answered 503.
C9_Burst ==
    ((\A r \in Arrived : reqs[r].kind = "unthrottled") /\ totalProcessed = 0) =>
        /\ \A r \in Arrived :
              /\ r <= concurrency
                   => reqs[r].work = "running" /\ reqs[r].start = reqs[r].timestamp
              /\ (concurrency < r /\ r <= concurrency + maxQueueSize)
                   => reqs[r].work = "queued" /\ requestQueue[r - concurrency] = r
              /\ r > concurrency + maxQueueSize
                   => reqs[r].work = "none" /\ Status(r) = <<503>>
        /\ activeWorkers = Min(nreq, concurrency)
        /\ Len(requestQueue) = Min(Max(nreq - concurrency, 0), maxQueueSize)

\* concurrency + maxQueueSize + k requests (k >= 1) arrived before any work
\* completed
C9_Witness ==
    /\ \A r \in Arrived : reqs[r].kind = "unthrottled"
    /\ totalProcessed = 0
    /\ nreq > concurrency + maxQueueSize
    /\ activeWorkers = concurrency
    /\ Len(requestQueue) = maxQueueSize
    /\ Cardinality({r \in Arrived : Status(r) = <<503>>})
           = nreq - concurrency - maxQueueSize

Gated(userId) == {r \in Arrived : reqs[r].kind = "gated" /\ reqs[r].userId = userId}

RateLimited(r) ==
    /\ Len(reqs[r].responses) = 1
    /\ reqs[r].responses[1].status = 429
    /\ reqs[r].responses[1].error = "Rate limit exceeded"

\* C10: rapid requests: the store starts empty; while all gated requests of
\* an identity carry the same tier (maxRequests = N) and fall inside one
\* window, the first N pass the limiter and the (N+1)-th is answered 429
\* "Rate limit exceeded" with remainingRequests = 0 and cooldownSeconds > 0.
C10_RapidRequests ==
    \A u \in Users, a \in BOOLEAN :
        ((\A r \in Gated(u) : reqs[r].isAuthenticated = a) /\ now < windowMs) =>
            \A r \in Gated(u) :
                LET j == Cardinality({q \in Gated(u) : q <= r})
                    N == LimitConfig(a).maxRequests
                IN /\ j <= N => ~RateLimited(r)
                   /\ j = N + 1 =>
                        /\ RateLimited(r)
                        /\ reqs[r].responses[1].remainingRequests = 0
                        /\ reqs[r].responses[1].cooldownSeconds > 0

\* the limiter let the request through
PassedLimiter(q) ==
    ~(Len(q.responses) = 1 /\ q.responses[1].error = "Rate limit exceeded")

\* C11: the gated flow never queues: requestQueue holds unthrottled requests
\* only and a gated request is never in the state "queued"; a gated request
\* that passed the limiter and arrives while activeWorkers >= concurrency is
\* answered 429 "Server overloaded" in that step, starts no work, and leaves
\* requestQueue, activeWorkers and the counters unchanged.
C11_GatedNeverQueues ==
    /\ [](/\ \A i \in 1..Len(requestQueue) :
                reqs[requestQueue[i]].kind = "unthrottled"
          /\ \A r \in Arrived :
                reqs[r].kind = "gated" => reqs[r].work # "queued")
    /\ [][(/\ nreq' = nreq + 1
           /\ reqs'[nreq'].kind = "gated"
           /\ PassedLimiter(reqs'[nreq'])
           /\ activeWorkers >= concurrency)
          => /\ StatusOf(reqs'[nreq']) = <<429>>
             /\ reqs'[nreq'].responses[1].error = "Server overloaded"
             /\ reqs'[nreq'].work = "none"
             /\ reqs'[nreq'].promise = "none"
             /\ requestQueue' = requestQueue
             /\ activeWorkers' = activeWorkers
             /\ totalProcessed' = totalProcessed
             /\ totalProcessingTime' = totalProcessingTime]_vars

\* a gated request was turned away as overloaded while the queue held
\* waiting requests, before any work had completed
C11_Witness ==
    /\ totalProcessed = 0
    /\ \E r \in Arrived :
          /\ reqs[r].kind = "gated"
          /\ reqs[r].work = "none"
          /\ Len(reqs[r].responses) = 1
          /\ reqs[r].responses[1].error = "Server overloaded"
          /\ reqs[r].responses[1].queueLength = Len(requestQueue)
          /\ Len(requestQueue) > 0

\* C12: work-conserving drain: in every state between two handlers or
\* callbacks it is not the case that requestQueue is non-empty while
\* activeWorkers < concurrency, whoever released the last slot.
C12_WorkConserving ==
    ~(Len(requestQueue) > 0 /\ activeWorkers < concurrency)

\* the only execution completed so far was a gated one, and a request that
\* had waited in the queue was started when it released its slot
C12_Witness ==
    /\ totalProcessed = 1
    /\ \E r \in Arrived : reqs[r].kind = "gated" /\ reqs[r].work = "finished"
    /\ \E q \in Arrived :
          /\ reqs[q].kind = "unthrottled"
          /\ reqs[q].work = "running"
          /\ reqs[q].start > reqs[q].timestamp

Running == {r \in Arrived : reqs[r].work = "running"}
Finished == {r \in Arrived : reqs[r].work = "finished"}

\* C13: slot release on every outcome, before draining: every execution
\* holds one slot while it runs and has released it and been counted once
\* when it has finished, whatever its outcome; a finished execution never
\* runs or finishes again; and in the step in which an execution finishes
\* totalProcessed grows by 1 and the drain starts exactly as many queued
\* requests as the slots free after the decrement allow.
C13_ReleaseBeforeDrain ==
    /\ [](/\ activeWorkers = Cardinality(Running)
          /\ totalProcessed = Cardinality(Finished))
    /\ [][\A r \in 1..MaxReq :
            /\ reqs[r].work = "finished" => reqs'[r].work = "finished"
            /\ (reqs[r].work = "running" /\ reqs'[r].work = "finished") =>
                 LET started == {q \in 1..MaxReq :
                                   reqs[q].work = "queued" /\ reqs'[q].work = "running"}
                 IN /\ reqs'[r].promise \in {"resolved", "rejected"}
                    /\ totalProcessed' = totalProcessed + 1
                    /\ Cardinality(started)
                          = Min(concurrency - (activeWorkers - 1), Len(requestQueue))
                    /\ activeWorkers' = activeWorkers - 1 + Cardinality(started)
                    /\ activeWorkers' <= concurrency]_vars

\* an execution ended in the timeout outcome, its slot was released, and the
\* drain gave the slot to a request that had waited
C13_Witness ==
    /\ \E r \in Finished : reqs[r].promise = "rejected" /\ reqs[r].late
    /\ \E q \in Running : reqs[q].start >= reqs[q].timestamp + timeoutMs
    /\ activeWorkers = concurrency

\* C14: timer cancellation: once the completion of an unthrottled request has
\* settled while its timeout timer had not fired, the timer is no longer
\* pending; in particular the timer of a request answered with the result
\* (which only the completion can cause) is neither pending nor fired.
C14_TimerCancelled ==
    \A r \in Arrived :
        reqs[r].kind = "unthrottled" =>
            /\ (reqs[r].promise \in {"resolved", "rejected"} /\ reqs[r].timer # "fired")
                  => reqs[r].timer # "pending"
            /\ Status(r) = <<200>> => reqs[r].timer \notin {"pending", "fired"}

InQueue(r) == \E i \in 1..Len(requestQueue) : requestQueue[i] = r

\* C15: cooperative, non-preemptive cancellation: the step in which the
\* timeout timer of an unthrottled request fires changes neither
\* requestQueue, activeWorkers, the counters nor the state of its work; a
\* timed-out request that waits is still in the queue, is started only from
\* the head of the queue, finishes no sooner than its work takes, is counted
\* in totalProcessed when it finishes, and keeps its single 408.
C15_NoPreemption ==
    /\ [](\A r \in Arrived :
            (reqs[r].timer = "fired" /\ reqs[r].work = "queued") => InQueue(r))
    /\ [][\A r \in 1..MaxReq :
            /\ (reqs[r].timer = "pending" /\ reqs'[r].timer = "fired") =>
                  /\ requestQueue' = requestQueue
                  /\ activeWorkers' = activeWorkers
                  /\ totalProcessed' = totalProcessed
                  /\ totalProcessingTime' = totalProcessingTime
                  /\ reqs'[r].work = reqs[r].work
            /\ (reqs[r].timer = "fired" /\ reqs[r].work = "queued"
                   /\ reqs'[r].work # "queued") =>
                  /\ Head(requestQueue) = r
                  /\ reqs'[r].work = "running"
                  /\ StatusOf(reqs'[r]) = <<408>>
            /\ (reqs[r].timer = "fired" /\ reqs[r].work = "running"
                   /\ reqs'[r].work # "running") =>
                  /\ reqs'[r].work = "finished"
                  /\ now - reqs[r].start >= minDelayMs
                  /\ totalProcessed' = totalProcessed + 1
                  /\ StatusOf(reqs'[r]) = <<408>>]_vars

\* one request was started from the queue after its timer had fired, and
\* another one, timed out while it ran, has finished and been counted
C15_Witness ==
    /\ \E r \in Running :
          /\ reqs[r].kind = "unthrottled"
          /\ reqs[r].timer = "fired"
          /\ reqs[r].start >= reqs[r].timestamp + timeoutMs
          /\ Status(r) = <<408>>
    /\ \E r \in Finished :
          /\ reqs[r].kind = "unthrottled"
          /\ reqs[r].timer = "fired"
          /\ Status(r) = <<408>>
    /\ totalProcessed > 0

\* C16: eventual outcome: if every started unit of work completes, every
\* unthrottled request that was enqueued eventually has its one response
\* (200 or 408) and its work is eventually started and finished, and the
\* system ends with activeWorkers = 0 and an empty queue (the requests of a
\* behaviour are finitely many).
C16_EventualOutcome ==
    /\ \A r \in 1..MaxReq :
          /\ (reqs[r].kind = "unthrottled" /\ reqs[r].work # "none")
                ~> (Status(r) = <<200>> \/ Status(r) = <<408>>)
          /\ (reqs[r].work = "queued") ~> (reqs[r].work = "running")
          /\ (reqs[r].kind = "unthrottled" /\ reqs[r].work = "running")
                ~> (reqs[r].work = "finished")
    /\ <>[](activeWorkers = 0 /\ requestQueue = <<>>)

\* a check for userId at time t on the key state k, run to completion
CheckAt(userId, a, k, t) == RunCall(NewCall(userId, a, t), k, t)

\* the times at or after R at which the next check is tried: R itself, the
\* millisecond after it, and the end of the reported cooldownSeconds
RetryTimes(R, t) == {R, R + 1, t + 1000 * Max(0, CeilDiv(R - t, 1000))}

\* C17: cooldown recovery: in every state with no invocation in flight, if a
\* check of the identity (tier as in its earlier checks) made now is
\* rejected with reset time R, then the next check, made at a time >= R
\* with nothing allowed in between, is allowed.
C17_CooldownRecovery ==
    \A u \in Users, a \in BOOLEAN :
        (InFlight = {} /\ TierFixed(u, a)) =>
            LET first == CheckAt(u, a, store[Key(u)], now)
                R == first.call.resetTime
            IN ~first.call.allowed =>
                  \A t2 \in RetryTimes(R, now) :
                      CheckAt(u, a, first.key, t2).call.allowed

\* C18: independent identities: while invocations for two identities
\* interleave, the key of each identity is what the identity's own
\* invocations alone would have left, and the next command of every
\* invocation in flight gives the invocation the same locals (and so the
\* same allowed, remainingRequests, resetTime) as it would then.
C18_IndependentIdentities ==
    /\ \A u \in Identities : store[Key(u)] = solo[u]
    /\ \A i \in InFlight :
          StepCall(calls[i], store[Key(calls[i].userId)], now, FALSE).call
            = StepCall(calls[i], solo[calls[i].userId], now, FALSE).call

\* an invocation of one identity is in flight, after its zCard, while the
\* other identity's key already holds an entry, and its own key holds one too
C18_Witness ==
    \E i \in InFlight :
        /\ calls[i].pc \in {"expire", "zRange"}
        /\ store[Key(calls[i].userId)] # NoKey
        /\ \E v \in Identities \ {calls[i].userId} :
              /\ store[Key(v)] # NoKey
              /\ \E j \in 1..Len(allowedLog) : allowedLog[j].userId = v

\* the capacity of the tier that the flag of invocation c selects
CapacityOf(c) ==
    IF c.isAuthenticated THEN authenticatedMaxRequests ELSE guestMaxRequests

\* C19: tier looked up fresh (invocations one after the other, the flag free
\* to change from one to the next): an invocation that has counted holds
\* allowed = TRUE iff its count is below the capacity its own flag selects;
\* until it adds, the count is the number of entries stored for the
\* identity, none of them older than the window; and a finished invocation
\* reports remainingRequests against that same capacity.
C19_TierFresh ==
    \A i \in Started :
        LET c == calls[i]
            k == store[Key(c.userId)]
        IN /\ (c.pc \in {"zAdd", "expire", "zRange", "done"} /\ ~c.err)
                => (c.allowed <=> c.currentCount < CapacityOf(c))
           /\ (c.pc = "zAdd" \/ (c.pc = "zRange" /\ ~c.allowed))
                => /\ c.currentCount = ZCard(k)
                   /\ \A e \in k.z : e.score > c.now - windowMs
           /\ (c.pc = "done" /\ ~c.err)
                => c.remainingRequests
                     = Max(0, CapacityOf(c) - c.currentCount
                              - (IF c.allowed THEN 1 ELSE 0))

\* the identity has called with both flags, and a guest invocation was
\* rejected at a count that an authenticated invocation is allowed at
C19_Witness ==
    \E u \in Users :
        /\ tierLog[u] = BOOLEAN
        /\ \E i \in Started :
              /\ calls[i].userId = u
              /\ calls[i].pc = "done"
              /\ ~calls[i].isAuthenticated
              /\ ~calls[i].allowed
              /\ calls[i].currentCount >= guestMaxRequests
              /\ calls[i].currentCount < authenticatedMaxRequests

\* C20: token-bucket range: with requests one after the other, every stored
\* tokens value and every tokens value a request holds satisfy
\* 0 <= tokens <= limit; the value a request computes by refilling is not
\* below the stored one; a rejected request stores that refilled value and
\* an allowed one stores it less 1, so the stored value does not decrease
\* except by the 1 a consumption takes.
C20_TokenRange ==
    /\ [](/\ \A u \in USERS :
                bucket[u].present =>
                    /\ FGe(bucket[u].tokens, FZero)
                    /\ FGe(FromInt(TIERS[u]), bucket[u].tokens)
          /\ \A i \in 1..MaxChats :
                chats[i].pc \in {"set", "done"} =>
                    /\ FGe(chats[i].tokens, FZero)
                    /\ FGe(FromInt(TIERS[chats[i].userId]), chats[i].tokens)
                    /\ chats[i].status = 200 => FGe(chats[i].refilled, One)
                    /\ chats[i].hadData
                          => FGe(chats[i].refilled, chats[i].prev))
    /\ [][\A u \in USERS :
            (bucket[u].present /\ bucket'[u] # bucket[u]) =>
                \E i \in 1..MaxChats :
                    /\ chats[i].pc = "set" /\ chats'[i].pc = "done"
                    /\ chats[i].userId = u
                    /\ chats'[i].status = 429
                          => FGe(bucket'[u].tokens, bucket[u].tokens)
                    /\ chats'[i].status = 200
                          => FGe(FAdd(bucket'[u].tokens, One),
                                 bucket[u].tokens)]_vars

\* a bucket refilled up to its cap: the request found a fractional value
\* below the limit stored and more than the limit due
C20_Witness ==
    \E i \in 1..MaxChats :
        /\ chats[i].pc = "done"
        /\ chats[i].hadData
        /\ ~FGe(chats[i].prev, FromInt(TIERS[chats[i].userId]))
        /\ chats[i].refilled = FromInt(TIERS[chats[i].userId])
        /\ ~FGe(FromInt(TIERS[chats[i].userId]),
                Accrued(TIERS[chats[i].userId], chats[i].prev, 0,
                        chats[i].elapsed))
        /\ FromInt(FFloor(chats[i].prev)) # chats[i].prev

\* the stored value prev and limit / 60 token per second for elapsed ms make
\* less than one token, in exact arithmetic:
\*   60000 * prev < 60000 - elapsed * limit
BeforeFullToken(limit, prev, elapsed) ==
    LET room == 60000 - elapsed * limit
    IN /\ room > 0
       /\ \/ prev.m = BigZero
          \/ /\ prev.e < 0
             /\ BigCmp(BigMul(prev.m, BigFromInt(60000)),
                       Shl(BigFromInt(room), -prev.e)) < 0

\* C21: token-bucket refill, limit 2 per 60 s: a request that finds the
\* bucket written 30 s ago or earlier (so also 30 s after two requests took
\* both tokens) is allowed, stores the refilled tokens less 1 and reports as
\* remaining the whole tokens in that value; a request that finds the
\* bucket emptied and comes before the refill makes one token is rejected
\* with 429.
C21_RefillScenario ==
    \A i \in 1..MaxChats :
        (chats[i].pc = "done" /\ chats[i].hadData
                              /\ TIERS[chats[i].userId] = 2) =>
            /\ chats[i].elapsed >= 30000 =>
                  /\ chats[i].status = 200
                  /\ FAdd(chats[i].tokens, One) = chats[i].refilled
                  /\ FGe(chats[i].tokens, FromInt(chats[i].remaining))
                  /\ ~FGe(chats[i].tokens, FromInt(chats[i].remaining + 1))
            /\ (/\ chats[i].prev = FZero
                /\ BeforeFullToken(2, chats[i].prev, chats[i].elapsed))
                  => chats[i].status = 429

\* both tokens were taken and the request 30 s later is allowed
C21_Witness ==
    \E i \in 1..MaxChats :
        /\ chats[i].pc = "done" /\ chats[i].hadData
        /\ TIERS[chats[i].userId] = 2
        /\ chats[i].prev = FZero
        /\ chats[i].elapsed = 30000
        /\ chats[i].status = 200
        /\ chats[i].remaining = 0

\* a request 1 ms after both tokens were taken is rejected
C21_WitnessRejected ==
    \E i \in 1..MaxChats :
        /\ chats[i].pc = "done" /\ chats[i].hadData
        /\ TIERS[chats[i].userId] = 2
        /\ chats[i].prev = FZero
        /\ chats[i].elapsed = 1
        /\ chats[i].status = 429

\* C22: token-bucket fail open: a request whose redisClient.get or
\* redisClient.set failed is allowed, that is answered 200 and not with an
\* error.
C22_FailOpen ==
    \A i \in 1..MaxChats :
        (chats[i].pc = "done" /\ chats[i].err) => chats[i].status = 200

\* C23: token-bucket atomicity: no update is lost. When an allowed request
\* writes the bucket of its user and no time has passed since the value in
\* the store was written (no refill), the value it writes is the stored
\* value less 1; so from t stored tokens at most floor(t) requests are
\* allowed and the stored tokens end at t less the number allowed.
C23_NoLostUpdate ==
    [][\A i \in 1..MaxChats :
          (/\ chats[i].pc = "set" /\ chats'[i].pc = "done"
           /\ chats'[i].status = 200
           /\ bucket[chats[i].userId].present
           /\ bucket[chats[i].userId].lastRefill = chats[i].now)
          => FAdd(bucket'[chats[i].userId].tokens, One)
                = bucket[chats[i].userId].tokens]_vars

\* C24: no late delivery by the worker: a unit of work that finishes, in
\* processNext or in processImmediate, resolves only if less than timeoutMs
\* have passed since the timestamp of its request and rejects with the
\* timeout otherwise; and no request, gated or unthrottled, whose work
\* finished timeoutMs or more after its timestamp has a 200 response.
C24_NoLateDelivery ==
    /\ [][\A r \in 1..MaxReq :
            (reqs[r].work = "running" /\ reqs'[r].work = "finished") =>
                reqs'[r].promise =
                    IF now - reqs[r].timestamp < timeoutMs THEN "resolved"
                    ELSE "rejected"]_vars
    /\ [](\A r \in Arrived :
            (reqs[r].work = "finished" /\ reqs[r].late) =>
                \A i \in 1..Len(reqs[r].responses) :
                    reqs[r].responses[i].status # 200)

\* a gated request whose work finished timeoutMs after it arrived was
\* answered 408
C24_Witness ==
    \E r \in Arrived :
        /\ reqs[r].kind = "gated" /\ reqs[r].work = "finished"
        /\ reqs[r].late /\ reqs[r].promise = "rejected"
        /\ Status(r) = <<408>>

\* C25: every allowed call of checkRateLimit adds exactly one timestamp:
\* with calls one after the other and a healthy store, the zAdd of a call
\* leaves the key with one member more than it had, also when an earlier
\* allowed call read the same millisecond.
C25_AllowedAddsOne ==
    [][\A i \in 1..MaxCalls :
          (calls[i].pc = "zAdd" /\ calls'[i].pc = "expire") =>
              ZCard(store'[Key(calls[i].userId)])
                = ZCard(Live(store[Key(calls[i].userId)], now)) + 1]_vars

\* the call of slot i returns in this step, without a store error
Returns(i) == calls[i].pc \notin {"idle", "done"} /\ calls'[i].pc = "done"
                                                  /\ ~calls'[i].err

C27_Remaining ==
    [][\A i \in 1..MaxCalls :
          Returns(i) =>
              LET c == calls'[i]
                  k == store'[Key(c.userId)]
              IN /\ c.remainingRequests >= 0
                 /\ c.remainingRequests = Max(0, CapacityOf(c) - ZCard(k))
                 /\ ~c.allowed => c.remainingRequests = 0]_vars

\* the timestamps of key k inside the window of a check at time t
InWindow(k, t) == {m \in k.z : m.score > t - windowMs}

\* C28: rejected checks record nothing: with calls one after the other, no
\* step of a call that is not allowed adds a timestamp or changes the
\* expiry of the key; what it removes is outside the window of the call or
\* had expired with the key. So the timestamps inside the window, and with
\* them the oldest one that resetTime is taken from, are the same after a
\* rejected call as before it.
C28_RejectedRecordsNothing ==
    [][\A i \in 1..MaxCalls :
          (i \in InFlight /\ calls'[i] # calls[i] /\ ~calls'[i].allowed) =>
              LET c == calls[i]
                  k == store[Key(c.userId)]
                  k1 == store'[Key(c.userId)]
              IN /\ k1.z \subseteq k.z
                 /\ k1.exp = k.exp \/ k1 = NoKey
                 /\ Live(k, now) # NoKey
                       => InWindow(k1, c.now) = InWindow(k, c.now)]_vars

\* a rejected call has returned: the key holds what it held, unexpired
C28_Witness ==
    \E i \in 1..MaxCalls :
        /\ calls[i].pc = "done" /\ ~calls[i].err /\ ~calls[i].allowed
        /\ calls[i].currentCount >= CapacityOf(calls[i])
        /\ ZCard(store[Key(calls[i].userId)]) = calls[i].currentCount
        /\ store[Key(calls[i].userId)].exp > now

\* the key has expired and still held timestamps
ExpiredWith(k, t) == k.exp # -1 /\ t >= k.exp /\ k.z # {}

C30_RetryAfter ==
    /\ [](\A i \in 1..MaxChats :
            (chats[i].pc = "done" /\ chats[i].status = 429)
                => chats[i].retryAfter >= 1)
    /\ [][\A i \in 1..MaxChats :
            (/\ chats[i].pc = "set" /\ chats'[i].pc = "done"
             /\ ~chats'[i].err
             /\ chats[i].now \in retryLog[chats[i].userId])
                => chats'[i].status = 200]_vars

\* the requests whose execution has started, and those whose execution
\* is over
ExecutionsStarted == {r \in 1..MaxReq : reqs[r].work \in {"running", "finished"}}
ExecutionsOver == {r \in 1..MaxReq : reqs[r].work = "finished"}

\* C31: metrics conservation: the executions ever started are as many as
\* activeWorkers + totalProcessed, and GET /metrics reports these counters
\* as they are; totalProcessed never decreases and changes only in a step
\* in which an execution completes, by one for each execution completed.
C31_MetricsConservation ==
    /\ [](/\ Cardinality(ExecutionsStarted) = activeWorkers + totalProcessed
          /\ Metrics(Pool).totalProcessed = totalProcessed
          /\ Metrics(Pool).activeWorkers = activeWorkers)
    /\ [][/\ totalProcessed' >= totalProcessed
          /\ totalProcessed' - totalProcessed
                = Cardinality({r \in 1..MaxReq :
                                  /\ reqs[r].work = "running"
                                  /\ reqs'[r].work = "finished"})]_vars

\* executions are over, one is running, and in between a gated request was
\* rejected as overloaded, an unthrottled one for the full queue, and one
\* is waiting in the queue
C31_Witness ==
    /\ totalProcessed >= 1
    /\ activeWorkers >= 1
    /\ Len(requestQueue) >= 1
    /\ \E r \in 1..MaxReq :
          /\ reqs[r].kind = "gated"
          /\ \E k \in 1..Len(reqs[r].responses) :
                reqs[r].responses[k].status = 429

\* the gated request q was answered 429 for the full pool
Overloaded(q) ==
    /\ q.kind = "gated"
    /\ \E k \in 1..Len(q.responses) : q.responses[k].error = "Server overloaded"

\* the timestamps the limiter counts for userId at time t in store st
Quota(st, userId, t) == Cardinality(InWindow(Live(st[Key(userId)], t), t))

\* C32: quota is spent before the pool check: when a gated request is
\* answered 429 for the full pool, no work is started for it, its timestamp
\* is in the key of its identity, and the timestamps counted for the
\* identity are one more than before the request.
C32_QuotaSpentBeforePool ==
    [][(nreq' = nreq + 1 /\ Overloaded(reqs'[nreq'])) =>
            LET u == reqs'[nreq'].userId
            IN /\ reqs'[nreq'].work = "none"
               /\ activeWorkers' = activeWorkers
               /\ \E m \in store'[Key(u)].z : m.score = now
               /\ Quota(store', u, now) = Quota(store, u, now) + 1]_vars

\* the gated request q was answered 429 by the limiter
DeniedByLimiter(q) ==
    /\ q.kind = "gated"
    /\ \E k \in 1..Len(q.responses) :
          q.responses[k].error = "Rate limit exceeded"

\* C33: no overtaking of queued work: while a request waits in the queue
\* every worker is busy; a gated request claims a worker only in a state
\* where requestQueue is empty, and a gated request that the limiter lets
\* through while a request waits in the queue is answered 429 for the full
\* pool.
C33_NoOvertaking ==
    /\ [](Len(requestQueue) > 0 => activeWorkers >= concurrency)
    /\ [][(nreq' = nreq + 1 /\ reqs'[nreq'].kind = "gated") =>
            /\ reqs'[nreq'].work = "running" => Len(requestQueue) = 0
            /\ (Len(requestQueue) > 0 /\ ~DeniedByLimiter(reqs'[nreq']))
                  => (Overloaded(reqs'[nreq']) /\ reqs'[nreq'].work = "none")]_vars

\* a gated request the limiter let through was answered 429 for the full
\* pool while a request was waiting in the queue
C33_Witness ==
    \E r \in 1..MaxReq :
        /\ Overloaded(reqs[r])
        /\ \E k \in 1..Len(reqs[r].responses) :
              reqs[r].responses[k].queueLength > 0

\* the requests a processQueue loop holds while it waits for its delay
InLoop == {r \in 1..MaxReq : reqs[r].work = "running"}

\* C34: the sequential variant: at most one processQueue loop is active,
\* and isProcessingQueue is true exactly while one is; requests are taken
\* one at a time in the order they were pushed (a request is taken only
\* when all the earlier ones are finished, and requestQueue holds the
\* waiting ones in that order); a non-empty requestQueue implies
\* isProcessingQueue; and every request pushed is eventually taken from
\* the queue and settled.
C34_SequentialQueue ==
    /\ [](/\ Cardinality(InLoop) <= 1
          /\ isProcessingQueue <=> InLoop # {}
          /\ Len(requestQueue) > 0 => isProcessingQueue
          /\ \A i \in 1..Len(requestQueue) :
                /\ reqs[requestQueue[i]].work = "queued"
                /\ \A j \in 1..Len(requestQueue) :
                      i < j => requestQueue[i] < requestQueue[j]
          /\ \A r \in 1..nreq :
                /\ reqs[r].work = "queued"
                      => \E i \in 1..Len(requestQueue) : requestQueue[i] = r
                /\ reqs[r].work \in {"running", "finished"}
                      => \A q \in 1..(r - 1) : reqs[q].work = "finished")
    /\ \A r \in 1..MaxReq :
          (reqs[r].work = "queued")
              ~> (/\ reqs[r].work = "finished"
                  /\ reqs[r].promise \in {"resolved", "rejected"})

\* one request is finished, the loop holds the next and a third one waits
\* in the queue
C34_Witness ==
    /\ isProcessingQueue
    /\ \E a, b, c \in 1..MaxReq :
          /\ a < b /\ b < c
          /\ reqs[a].work = "finished"
          /\ reqs[b].work = "running"
          /\ requestQueue = <<c>>

====
